---- MODULE Spec2Model ----
(***************************************************************************)
(* A model of two leaf components of rust-protobuf:                        *)
(*   protobuf/src/chars.rs      Chars, a UTF-8 checked wrapper of Bytes    *)
(*   protobuf/src/well_known_types_util/duration.rs                        *)
(*                              Duration <-> std::time::Duration           *)
(* Bytes are naturals 0..255, byte strings are sequences of bytes.         *)
(***************************************************************************)
EXTENDS Integers, Sequences, FiniteSets, TLC

VARIABLES
  uIn, uRes,                          \* from_bytes as a function: input, result
  handles, store, last, pend, corrupt,\* Chars/Bytes handles and their buffers
  table, ghost, lastGet,              \* HashMap<Chars, u64>
  fText, fWidth, fChars, fOut,        \* Display / Debug
  dop, dsrc, drec, dres               \* Duration conversions

utfVars   == <<uIn, uRes>>
charsVars == <<handles, store, last, pend, corrupt>>
mapVars   == <<table, ghost, lastGet>>
fmtVars   == <<fText, fWidth, fChars, fOut>>
durVars   == <<dop, dsrc, drec, dres>>
vars      == <<utfVars, charsVars, mapVars, fmtVars, durVars>>

\* ------------------------------------------------------------------ bounds

\* Longest byte string handed to from_bytes in SpecUtf8.
MaxBytesLen == 4
\* Handle slots (Chars / Bytes values alive at once) and heap buffers.
MaxHandles == 2
MaxBufs == 1
\* Threads of SpecConc.
NThreads == 2
\* Buckets of the hash table of SpecMap.
NBuckets == 4
\* Longest text (in chars) and widest field handed to the formatter.
MaxFmtChars == 2
MaxWidth == 3

Min(a, b) == IF a < b THEN a ELSE b

Tail2(s) == SubSeq(s, 2, Len(s))

\* ------------------------------------------------- core::str::from_utf8

\* core::str::validations::UTF8_CHAR_WIDTH, the table from_utf8 reads.
Utf8CharWidth(first) ==
  IF first < 128 THEN 1
  ELSE IF first >= 194 /\ first <= 223 THEN 2
  ELSE IF first >= 224 /\ first <= 239 THEN 3
  ELSE IF first >= 240 /\ first <= 244 THEN 4
  ELSE 0

\* A continuation byte, 0x80..0xBF.
IsCont(b) == b >= 128 /\ b <= 191

\* The (first, second) byte pairs a three-byte sequence may start with.
Second3Ok(first, second) ==
  \/ first = 224 /\ second >= 160 /\ second <= 191
  \/ first >= 225 /\ first <= 236 /\ IsCont(second)
  \/ first = 237 /\ second >= 128 /\ second <= 159
  \/ first >= 238 /\ first <= 239 /\ IsCont(second)

\* The (first, second) byte pairs a four-byte sequence may start with.
Second4Ok(first, second) ==
  \/ first = 240 /\ second >= 144 /\ second <= 191
  \/ first >= 241 /\ first <= 243 /\ IsCont(second)
  \/ first = 244 /\ second >= 128 /\ second <= 143

\* run_utf8_validation from index i (1-based): ok, or the length of the
\* valid prefix (Utf8Error::valid_up_to).
RECURSIVE Utf8Run(_, _)
Utf8Run(v, i) ==
  LET n   == Len(v)
      bad == [ok |-> FALSE, upto |-> i - 1]
  IN
  IF i > n THEN [ok |-> TRUE, upto |-> n]
  ELSE
    LET first == v[i]
        w     == Utf8CharWidth(first)
    IN
    IF w = 1 THEN Utf8Run(v, i + 1)
    ELSE IF w = 2 THEN
      IF i + 1 > n \/ ~IsCont(v[i + 1]) THEN bad ELSE Utf8Run(v, i + 2)
    ELSE IF w = 3 THEN
      IF i + 1 > n \/ ~Second3Ok(first, v[i + 1]) THEN bad
      ELSE IF i + 2 > n \/ ~IsCont(v[i + 2]) THEN bad
      ELSE Utf8Run(v, i + 3)
    ELSE IF w = 4 THEN
      IF i + 1 > n \/ ~Second4Ok(first, v[i + 1]) THEN bad
      ELSE IF i + 2 > n \/ ~IsCont(v[i + 2]) THEN bad
      ELSE IF i + 3 > n \/ ~IsCont(v[i + 3]) THEN bad
      ELSE Utf8Run(v, i + 4)
    ELSE bad

\* A buggy from_utf8 that accepts every byte string.
from_utf8_unchecked(v) == [ok |-> TRUE, upto |-> Len(v)]

\* str::from_utf8(&bytes)
from_utf8(v) == Utf8Run(v, 1)

\* ------------------------------------------- what "valid UTF-8" means

\* A Unicode scalar value: a code point that is no surrogate.
IsScalar(cp) == cp >= 0 /\ cp <= 1114111 /\ ~(cp >= 55296 /\ cp <= 57343)

\* The UTF-8 encoding of a scalar value (char::encode_utf8).
Utf8Encode(cp) ==
  IF cp < 128 THEN <<cp>>
  ELSE IF cp < 2048 THEN <<192 + (cp \div 64), 128 + (cp % 64)>>
  ELSE IF cp < 65536 THEN
    <<224 + (cp \div 4096), 128 + ((cp \div 64) % 64), 128 + (cp % 64)>>
  ELSE
    <<240 + (cp \div 262144), 128 + ((cp \div 4096) % 64),
      128 + ((cp \div 64) % 64), 128 + (cp % 64)>>

\* The number a chunk of 1..4 bytes would stand for, read by its length.
ChunkValue(c) ==
  IF Len(c) = 1 THEN c[1]
  ELSE IF Len(c) = 2 THEN (c[1] - 192) * 64 + (c[2] - 128)
  ELSE IF Len(c) = 3 THEN
    (c[1] - 224) * 4096 + (c[2] - 128) * 64 + (c[3] - 128)
  ELSE
    (c[1] - 240) * 262144 + (c[2] - 128) * 4096 + (c[3] - 128) * 64
      + (c[4] - 128)

\* c is the encoding of one scalar value.
IsCharEncoding(c) ==
  LET cp == ChunkValue(c) IN IsScalar(cp) /\ Utf8Encode(cp) = c

\* b is the concatenation of encodings of scalar values: b encodes a text.
RECURSIVE IsTextEncoding(_)
IsTextEncoding(b) ==
  \/ b = <<>>
  \/ \E k \in 1..Min(4, Len(b)) :
       /\ IsCharEncoding(SubSeq(b, 1, k))
       /\ IsTextEncoding(SubSeq(b, k + 1, Len(b)))

\* -------------------------------------------------- bytes::Bytes handles

Slots   == 1..MaxHandles
Bufs    == 1..MaxBufs
Threads == 1..NThreads

\* Texts a &'static str or a String holds, and byte strings a caller of
\* from_bytes holds (the last two are not UTF-8).
StrInputs == {<<>>, <<195, 169>>}
RawInputs == {<<195, 169>>, <<195>>}

\* An unused slot.
NoHandle ==
  [st |-> "free", wrap |-> "bytes", vt |-> "static", buf |-> 0,
   lit |-> <<>>, len |-> 0]

\* An unallocated heap buffer.
NoBuf == [state |-> "unalloc", bytes |-> <<>>, rc |-> 0, shared |-> FALSE]

\* Bytes::new(): the empty static slice, no heap buffer.
BytesNew ==
  [st |-> "live", wrap |-> "bytes", vt |-> "static", buf |-> 0,
   lit |-> <<>>, len |-> 0]

\* Bytes::from_static(s): aliases the literal, no heap buffer.
BytesFromStatic(s) ==
  [st |-> "live", wrap |-> "bytes", vt |-> "static", buf |-> 0,
   lit |-> s, len |-> Len(s)]

\* Bytes::from(Vec<u8>) into heap buffer b. exact: len == capacity, the
\* vector becomes a boxed slice (promotable vtable, and Bytes::new() when
\* empty); otherwise a Shared block with ref_cnt 1.
BytesFromVec(s, exact, b) ==
  IF exact /\ s = <<>> THEN BytesNew
  ELSE [st |-> "live", wrap |-> "bytes",
        vt |-> IF exact THEN "promotable" ELSE "shared",
        buf |-> b, lit |-> <<>>, len |-> Len(s)]

\* The memory a handle points at.
BytesData(S, h) == IF h.buf = 0 THEN h.lit ELSE S[h.buf].bytes

\* Bytes::as_slice: the first len bytes of it.
BytesAsSlice(S, h) == SubSeq(BytesData(S, h), 1, h.len)

\* Bytes::len / Bytes::is_empty
BytesLen(h) == h.len
BytesIsEmpty(h) == h.len = 0

\* ---------------------------------------------------------------- Chars

\* Chars(bytes): the tuple struct around a Bytes.
Chars(bytes) == [bytes EXCEPT !.wrap = "chars"]

\* Chars::new / Default
CharsNewValue == Chars(BytesNew)

\* impl From<&'static str>
CharsFromStatic(s) == Chars(BytesFromStatic(s))

\* impl From<String>
CharsFromString(s, exact, b) == Chars(BytesFromVec(s, exact, b))

\* impl Deref: str::from_utf8_unchecked(&self.0), the bytes taken as text
\* with no check.
Deref(S, h) == BytesAsSlice(S, h)

\* Chars::as_str
as_str(S, h) == Deref(S, h)

\* Chars::len / Chars::is_empty
CharsLen(h) == BytesLen(h)
CharsIsEmpty(h) == BytesIsEmpty(h)

\* derive(PartialEq): Bytes == Bytes compares the slices.
CharsEq(S, a, b) == BytesAsSlice(S, a) = BytesAsSlice(S, b)

\* A from_bytes that keeps the valid prefix of a bad input.
from_bytes_lossy(S, bytes) ==
  LET r == from_utf8(BytesAsSlice(S, bytes)) IN
  [ok |-> TRUE, chars |-> Chars([bytes EXCEPT !.len = r.upto]),
   upto |-> r.upto]

\* Chars::from_bytes: Ok(Chars(bytes)) when from_utf8 accepts the slice,
\* else the error (and the Bytes argument is dropped).
from_bytes(S, bytes) ==
  LET r == from_utf8(BytesAsSlice(S, bytes)) IN
  IF r.ok THEN [ok |-> TRUE, chars |-> Chars(bytes), upto |-> r.upto]
  ELSE [ok |-> FALSE, chars |-> NoHandle, upto |-> r.upto]

\* Chars::into_bytes: the inner Bytes, unchanged.
into_bytes(h) == [h EXCEPT !.wrap = "bytes"]

\* --------------------------------------------- handles and heap buffers

Live(h) == handles[h].st = "live"
IsChars(h) == Live(h) /\ handles[h].wrap = "chars"
FreeSlots == {h \in Slots : ~Live(h)}

\* The slot a new value lands in: the lowest unused one.
NewSlot == CHOOSE h \in FreeSlots : \A g \in FreeSlots : h <= g

\* Heap buffers the allocator may hand out: not live, referenced by no
\* handle and by no release in progress.
FreeBufs ==
  {b \in Bufs : /\ store[b].state # "live"
                /\ \A h \in Slots : ~(Live(h) /\ handles[h].buf = b)
                /\ \A t \in Threads : pend[t] # b}
NewBuf == CHOOSE b \in FreeBufs : \A c \in FreeBufs : b <= c

\* A fresh buffer holding s, owned by one handle.
Alloc(S, b, s) ==
  [S EXCEPT ![b] = [state |-> "live", bytes |-> s, rc |-> 1, shared |-> FALSE]]

\* A buffer given back to the allocator: its content is gone.
Freed(buf) ==
  [state |-> "freed", bytes |-> <<>>, rc |-> 0, shared |-> buf.shared]

Note(op, h) == [op |-> op, h |-> h, ok |-> TRUE]

\* Dropping a Bytes that points into heap buffer b (release_shared):
\* ref_cnt.fetch_sub(1), and the one that saw 1 frees the buffer. With
\* split, the free is a later step of thread t (FinishFree).
Release(t, b, split) ==
  LET old == store[b].rc IN
  IF store[b].state # "live" \/ old < 1
  THEN /\ corrupt' = TRUE
       /\ UNCHANGED <<store, pend>>
  ELSE /\ corrupt' = corrupt
       /\ IF split
          THEN /\ store' = [store EXCEPT ![b].rc = old - 1]
               /\ pend' = [pend EXCEPT ![t] = IF old = 1 THEN b ELSE 0]
          ELSE /\ store' = [store EXCEPT ![b] =
                              IF old = 1 THEN Freed(@)
                              ELSE [@ EXCEPT !.rc = old - 1]]
               /\ pend' = pend

\* Drop of the Bytes in slot h by thread t.
DropBytes(t, h, split) ==
  IF handles[h].buf = 0
  THEN UNCHANGED <<store, pend, corrupt>>
  ELSE Release(t, handles[h].buf, split)

\* The second half of a split release: free the buffer.
FinishFree(t) ==
  /\ pend[t] # 0
  /\ LET b == pend[t] IN
     IF store[b].state # "live"
     THEN corrupt' = TRUE /\ store' = store
     ELSE corrupt' = corrupt /\ store' = [store EXCEPT ![b] = Freed(@)]
  /\ pend' = [pend EXCEPT ![t] = 0]
  /\ last' = [op |-> "free", h |-> pend[t], ok |-> TRUE]
  /\ UNCHANGED <<handles, utfVars, mapVars, fmtVars, durVars>>

\* Bytes::clone: a static handle is copied; a heap handle bumps ref_cnt
\* (fetch_add) and points at the same buffer.
BytesClone(S, h) ==
  [handle |-> h,
   store  |-> IF h.buf = 0 THEN S
              ELSE [S EXCEPT ![h.buf].rc = @ + 1, ![h.buf].shared = TRUE]]

\* A clone that copies the handle and leaves ref_cnt alone.
CharsCloneBitwise(S, h) == [handle |-> h, store |-> S]

\* derive(Clone) on Chars: Chars(self.0.clone()).
CharsClone(S, h) == BytesClone(S, h)

\* Bytes::clear is truncate(0): nothing when already empty; a promotable
\* handle gives up its buffer (drop(split_off(0))) and becomes the empty
\* static slice; any other handle keeps its pointer with len 0.
BytesClear(h) ==
  IF h.len = 0 THEN h
  ELSE IF h.vt = "promotable"
  THEN [h EXCEPT !.vt = "static", !.buf = 0, !.lit = <<>>, !.len = 0]
  ELSE [h EXCEPT !.len = 0]

\* A clear that leaves a handle to a literal as it is.
ClearSkipsStatic(H, h) ==
  [H EXCEPT ![h] = IF H[h].vt = "static" THEN H[h] ELSE BytesClear(H[h])]

\* A clear that empties every handle of the same buffer.
ClearThroughShared(H, h) ==
  [g \in Slots |->
     IF g = h \/ (H[h].buf # 0 /\ H[g].st = "live" /\ H[g].buf = H[h].buf)
     THEN BytesClear(H[g]) ELSE H[g]]

\* Chars::clear: self.0.clear(), on the one handle.
CharsClear(H, h) == [H EXCEPT ![h] = BytesClear(H[h])]

otherVars == <<utfVars, mapVars, fmtVars, durVars>>

\* Chars::new() / Chars::default()
New(t) ==
  /\ pend[t] = 0 /\ FreeSlots # {}
  /\ handles' = [handles EXCEPT ![NewSlot] = CharsNewValue]
  /\ last' = Note("new", NewSlot)
  /\ UNCHANGED <<store, pend, corrupt, otherVars>>

\* Chars::from(s) for a literal s
FromStatic(t, s) ==
  /\ pend[t] = 0 /\ FreeSlots # {}
  /\ handles' = [handles EXCEPT ![NewSlot] = CharsFromStatic(s)]
  /\ last' = Note("from_static", NewSlot)
  /\ UNCHANGED <<store, pend, corrupt, otherVars>>

\* Chars::from(s) for a String s
FromString(t, s, exact) ==
  /\ pend[t] = 0 /\ FreeSlots # {}
  /\ LET heap == ~(exact /\ s = <<>>) IN
     /\ heap => FreeBufs # {}
     /\ handles' = [handles EXCEPT ![NewSlot] =
                      CharsFromString(s, exact, IF heap THEN NewBuf ELSE 0)]
     /\ store' = IF heap THEN Alloc(store, NewBuf, s) ELSE store
  /\ last' = Note("from_string", NewSlot)
  /\ UNCHANGED <<pend, corrupt, otherVars>>

\* The caller of from_bytes builds a Bytes from bytes read off the wire.
MakeBytes(t, s, exact) ==
  /\ pend[t] = 0 /\ FreeSlots # {} /\ FreeBufs # {}
  /\ handles' = [handles EXCEPT ![NewSlot] = BytesFromVec(s, exact, NewBuf)]
  /\ store' = Alloc(store, NewBuf, s)
  /\ last' = Note("make_bytes", NewSlot)
  /\ UNCHANGED <<pend, corrupt, otherVars>>

\* Chars::from_bytes(bytes) on the Bytes in slot h
FromBytes(t, h, split) ==
  /\ pend[t] = 0 /\ Live(h) /\ handles[h].wrap = "bytes"
  /\ LET r == from_bytes(store, handles[h]) IN
     /\ last' = [op |-> "from_bytes", h |-> h, ok |-> r.ok]
     /\ handles' = [handles EXCEPT ![h] = r.chars]
     /\ IF r.ok THEN UNCHANGED <<store, pend, corrupt>>
        ELSE DropBytes(t, h, split)
  /\ UNCHANGED otherVars

\* Chars::into_bytes(self)
IntoBytes(t, h) ==
  /\ pend[t] = 0 /\ IsChars(h)
  /\ handles' = [handles EXCEPT ![h] = into_bytes(handles[h])]
  /\ last' = Note("into_bytes", h)
  /\ UNCHANGED <<store, pend, corrupt, otherVars>>

\* self.clone() of the value in slot h
Clone(t, h) ==
  /\ pend[t] = 0 /\ Live(h) /\ FreeSlots # {}
  /\ LET c == CharsClone(store, handles[h]) IN
     /\ handles' = [handles EXCEPT ![NewSlot] = c.handle]
     /\ store' = c.store
  /\ last' = Note("clone", NewSlot)
  /\ UNCHANGED <<pend, corrupt, otherVars>>

\* self.clear() of the value in slot h
Clear(t, h, split) ==
  /\ pend[t] = 0 /\ Live(h)
  /\ handles' = CharsClear(handles, h)
  /\ IF handles[h].len > 0 /\ handles[h].vt = "promotable"
     THEN DropBytes(t, h, split)
     ELSE UNCHANGED <<store, pend, corrupt>>
  /\ last' = Note("clear", h)
  /\ UNCHANGED otherVars

\* The value in slot h goes out of scope.
Drop(t, h, split) ==
  /\ pend[t] = 0 /\ Live(h)
  /\ handles' = [handles EXCEPT ![h] = NoHandle]
  /\ DropBytes(t, h, split)
  /\ last' = Note("drop", h)
  /\ UNCHANGED otherVars

CharsInit ==
  /\ handles = [h \in Slots |-> NoHandle]
  /\ store = [b \in Bufs |-> NoBuf]
  /\ last = Note("init", 0)
  /\ pend = [t \in Threads |-> 0]
  /\ corrupt = FALSE

UtfIdle == uIn = <<>> /\ uRes = [tag |-> "none", chars |-> <<>>, upto |-> 0]
MapIdle == table = <<>> /\ ghost = <<>> /\ lastGet = <<>>
FmtIdle == fText = <<>> /\ fWidth = 0 /\ fChars = NoHandle /\ fOut = <<>>
DurIdle == dop = "idle" /\ dsrc = <<>> /\ drec = <<>> /\ dres = <<>>

\* One owner, every operation a single step.
InitChars == CharsInit /\ UtfIdle /\ MapIdle /\ FmtIdle /\ DurIdle

NextChars ==
  \/ New(1)
  \/ \E s \in StrInputs : FromStatic(1, s)
  \/ \E s \in StrInputs, exact \in BOOLEAN : FromString(1, s, exact)
  \/ \E s \in RawInputs, exact \in BOOLEAN : MakeBytes(1, s, exact)
  \/ \E h \in Slots : FromBytes(1, h, FALSE)
  \/ \E h \in Slots : IntoBytes(1, h)
  \/ \E h \in Slots : Clone(1, h)
  \/ \E h \in Slots : Clear(1, h, FALSE)
  \/ \E h \in Slots : Drop(1, h, FALSE)

SpecChars == InitChars /\ [][NextChars]_vars

\* Handles owned by several threads; a release is two steps, the atomic
\* decrement and the free.
NextConc ==
  \E t \in Threads :
    \/ \E s \in StrInputs, exact \in BOOLEAN : FromString(t, s, exact)
    \/ \E h \in Slots : Clone(t, h)
    \/ \E h \in Slots : Clear(t, h, TRUE)
    \/ \E h \in Slots : IntoBytes(t, h)
    \/ \E h \in Slots : Drop(t, h, TRUE)
    \/ FinishFree(t)

SpecConc == InitChars /\ [][NextConc]_vars

\* ------------------------------------------- from_bytes as a function

\* Bytes that sit on the edges of the ranges from_utf8 tells apart.
Utf8Alphabet == {65, 128, 143, 144, 159, 160, 191, 194, 224, 237, 240, 244}

ByteStrings == UNION {[1..k -> Utf8Alphabet] : k \in 0..MaxBytesLen}

InitUtf8 ==
  /\ uIn \in ByteStrings
  /\ uRes = [tag |-> "none", chars |-> <<>>, upto |-> 0]
  /\ CharsInit /\ MapIdle /\ FmtIdle /\ DurIdle

\* Chars::from_bytes(Bytes::from(uIn))
Utf8Call ==
  /\ uRes.tag = "none"
  /\ LET S == [b \in {1} |-> [state |-> "live", bytes |-> uIn, rc |-> 1,
                               shared |-> FALSE]]
         r == from_bytes(S, BytesFromVec(uIn, FALSE, 1))
     IN uRes' = IF r.ok
                THEN [tag |-> "ok", chars |-> r.chars, text |-> as_str(S, r.chars),
                      len |-> CharsLen(r.chars), upto |-> r.upto]
                ELSE [tag |-> "err", chars |-> r.chars, upto |-> r.upto]
  /\ UNCHANGED <<uIn, charsVars, mapVars, fmtVars, durVars>>

NextUtf8 == Utf8Call

SpecUtf8 == InitUtf8 /\ [][NextUtf8]_vars

\* ------------------------------------------------- Hash and HashMap

\* usize::to_ne_bytes on a 64-bit little-endian target, for n < 2^16.
UsizeBytes(n) == <<n % 256, n \div 256, 0, 0, 0, 0, 0, 0>>

\* impl Hash for str: the bytes, then 0xff (Hasher::write_str).
StrHashFeed(s) == s \o <<255>>

\* impl Hash for [u8] (what Bytes hashes as): the length, then the bytes.
SliceHashFeed(b) == UsizeBytes(Len(b)) \o b

\* A derived Hash: the inner Bytes hashes itself.
CharsHashDerived(S, h) == SliceHashFeed(BytesAsSlice(S, h))

\* impl Hash for Chars: let str_self: &str = self; str_self.hash(state)
CharsHashFeed(S, h) == StrHashFeed(Deref(S, h))

\* impl Borrow<str> for Chars
borrow(S, h) == Deref(S, h)

\* The hasher's digest of what it was fed, and the bucket it selects.
RECURSIVE FeedHash(_, _)
FeedHash(feed, acc) ==
  IF feed = <<>> THEN acc
  ELSE FeedHash(Tail2(feed), (acc * 31 + feed[1]) % 65536)

Bucket(feed) == FeedHash(feed, 7) % NBuckets

Buckets == 0..(NBuckets - 1)

\* Keys of the table (the second is "foo") and its values; ghost is the
\* value last inserted for each text, 0 for none.
MapKeys == {<<>>, <<102, 111, 111>>, <<102, 111>>, <<195, 169>>}
MapVals == {5, 7}

\* The entry of bucket row whose key equals Chars k (derive(Eq)), or 0.
FindChars(row, k) ==
  LET hits == {i \in 1..Len(row) : CharsEq(store, row[i].key, k)} IN
  IF hits = {} THEN 0 ELSE CHOOSE i \in hits : TRUE

\* The entry of bucket row whose key, borrowed as str, equals q, or 0.
FindStr(row, q) ==
  LET hits == {i \in 1..Len(row) : borrow(store, row[i].key) = q} IN
  IF hits = {} THEN 0 ELSE CHOOSE i \in hits : TRUE

\* HashMap::get(q) for q: &str: hash q as str, search that bucket.
MapGetStr(T, q) ==
  LET row == T[Bucket(StrHashFeed(q))]
      i   == FindStr(row, q)
  IN IF i = 0 THEN 0 ELSE row[i].val

\* table.insert(s.into(), v) for a literal s
MapInsert(s, v) ==
  /\ LET k   == CharsFromStatic(s)
         b   == Bucket(CharsHashFeed(store, k))
         row == table[b]
         i   == FindChars(row, k)
     IN table' = [table EXCEPT ![b] =
                    IF i = 0 THEN Append(row, [key |-> k, val |-> v])
                    ELSE [row EXCEPT ![i].val = v]]
  /\ ghost' = [ghost EXCEPT ![s] = v]
  /\ UNCHANGED <<lastGet, utfVars, charsVars, fmtVars, durVars>>

\* table.get(q) for q: &str
MapGet(q) ==
  /\ lastGet' = [q |-> q, res |-> MapGetStr(table, q), had |-> ghost[q]]
  /\ UNCHANGED <<table, ghost, utfVars, charsVars, fmtVars, durVars>>

InitMap ==
  /\ table = [b \in Buckets |-> <<>>]
  /\ ghost = [s \in MapKeys |-> 0]
  /\ lastGet = [q |-> <<>>, res |-> 0, had |-> 0]
  /\ CharsInit /\ UtfIdle /\ FmtIdle /\ DurIdle

NextMap ==
  \/ \E s \in MapKeys, v \in MapVals : MapInsert(s, v)
  \/ \E q \in MapKeys : MapGet(q)

SpecMap == InitMap /\ [][NextMap]_vars

\* ------------------------------------------------- Display and Debug

\* The chars of the texts rendered: a, ", \, newline, e-acute.
FmtChars == {<<97>>, <<34>>, <<92>>, <<10>>, <<195, 169>>}

RECURSIVE Concat(_)
Concat(ss) == IF ss = <<>> THEN <<>> ELSE ss[1] \o Concat(Tail2(ss))

FmtTexts ==
  {Concat(cs) : cs \in UNION {[1..k -> FmtChars] : k \in 0..MaxFmtChars}}

\* str::chars().count(): the bytes that are no continuation bytes.
CharCount(s) == Cardinality({i \in 1..Len(s) : ~IsCont(s[i])})

Spaces(n) == [i \in 1..n |-> 32]

\* <str as Display>::fmt is Formatter::pad: the text, then fill up to the
\* width (left aligned).
StrDisplay(s, w) ==
  IF CharCount(s) >= w THEN s ELSE s \o Spaces(w - CharCount(s))

\* char::escape_debug for the chars of FmtChars, byte by byte.
RECURSIVE EscapeDebug(_)
EscapeDebug(s) ==
  IF s = <<>> THEN <<>>
  ELSE (IF s[1] = 34 THEN <<92, 34>>
        ELSE IF s[1] = 92 THEN <<92, 92>>
        ELSE IF s[1] = 10 THEN <<92, 110>>
        ELSE <<s[1]>>) \o EscapeDebug(Tail2(s))

\* <str as Debug>::fmt: the escaped text in double quotes, no padding.
StrDebug(s, w) == <<34>> \o EscapeDebug(s) \o <<34>>

HexDigit(n) == IF n < 10 THEN 48 + n ELSE 87 + n

\* <Bytes as Debug>::fmt: b"..." with every byte outside printable ASCII
\* escaped.
RECURSIVE EscapeBytes(_)
EscapeBytes(s) ==
  IF s = <<>> THEN <<>>
  ELSE (IF s[1] = 34 THEN <<92, 34>>
        ELSE IF s[1] = 92 THEN <<92, 92>>
        ELSE IF s[1] = 10 THEN <<92, 110>>
        ELSE IF s[1] >= 32 /\ s[1] < 127 THEN <<s[1]>>
        ELSE <<92, 120, HexDigit(s[1] \div 16), HexDigit(s[1] % 16)>>)
       \o EscapeBytes(Tail2(s))

\* A Debug that renders the inner Bytes.
CharsDebugAsBytes(S, h, w) ==
  <<98, 34>> \o EscapeBytes(BytesAsSlice(S, h)) \o <<34>>

\* impl Display for Chars: fmt::Display::fmt(&**self, f)
CharsDisplay(S, h, w) == StrDisplay(Deref(S, h), w)

\* impl Debug for Chars: fmt::Debug::fmt(&**self, f)
CharsDebug(S, h, w) == StrDebug(Deref(S, h), w)

InitFmt ==
  /\ fText \in FmtTexts
  /\ fWidth \in 0..MaxWidth
  /\ fChars = NoHandle
  /\ fOut = [op |-> "none", chars |-> <<>>, string |-> <<>>]
  /\ CharsInit /\ UtfIdle /\ MapIdle /\ DurIdle

\* let chars: Chars = s.into(), from the literal or from a String
FmtBuild(fromString) ==
  /\ fChars.st = "free"
  /\ fChars' = IF fromString THEN CharsFromString(fText, FALSE, 1)
               ELSE CharsFromStatic(fText)
  /\ store' = IF fromString THEN Alloc(store, 1, fText) ELSE store
  /\ UNCHANGED <<fText, fWidth, fOut, handles, last, pend, corrupt,
                 utfVars, mapVars, durVars>>

\* format!("{:w}", chars) beside format!("{:w}", string)
FmtDisplay ==
  /\ fChars.st = "live"
  /\ fOut' = [op |-> "display", chars |-> CharsDisplay(store, fChars, fWidth),
              string |-> StrDisplay(fText, fWidth)]
  /\ UNCHANGED <<fText, fWidth, fChars, charsVars, utfVars, mapVars, durVars>>

\* format!("{:w?}", chars) beside format!("{:w?}", string)
FmtDebug ==
  /\ fChars.st = "live"
  /\ fOut' = [op |-> "debug", chars |-> CharsDebug(store, fChars, fWidth),
              string |-> StrDebug(fText, fWidth)]
  /\ UNCHANGED <<fText, fWidth, fChars, charsVars, utfVars, mapVars, durVars>>

NextFmt ==
  \/ \E fromString \in BOOLEAN : FmtBuild(fromString)
  \/ FmtDisplay
  \/ FmtDebug

SpecFmt == InitFmt /\ [][NextFmt]_vars

\* ------------------------------------------------------------ Duration
\* A 64-bit word is four 16-bit limbs, most significant first; u64 and
\* i64 are two readings of the same word (an `as` cast keeps the bits).

W64(a, b, c, d) == <<a, b, c, d>>
Small(n) == <<0, 0, 0, n>>

\* i64::MAX, i64::MIN, -1 and u64::MAX as words.
I64Max == W64(32767, 65535, 65535, 65535)
I64Min == W64(32768, 0, 0, 0)
AllOnes == W64(65535, 65535, 65535, 65535)

\* The word read as i64 is negative: its top bit is set.
I64IsNeg(w) == w[1] >= 32768

\* The word read as u64 is above i64::MAX.
U64AboveI64Max(w) == w[1] >= 32768

\* NANOS_PER_SEC of std::time.
NanosPerSec == 1000000000

\* u64::checked_add: the sum, and whether it left the 64 bits.
U64Add(a, b) ==
  LET s4 == a[4] + b[4]
      s3 == a[3] + b[3] + (s4 \div 65536)
      s2 == a[2] + b[2] + (s3 \div 65536)
      s1 == a[1] + b[1] + (s2 \div 65536)
  IN [ovf |-> s1 >= 65536,
      val |-> <<s1 % 65536, s2 % 65536, s3 % 65536, s4 % 65536>>]

\* std::time::Duration::from_secs(secs)
StdFromSecs(secs) == [secs |-> secs, nanos |-> 0]

\* std::time::Duration::from_nanos(n), n below 2^31
StdFromNanos(n) == [secs |-> Small(n \div NanosPerSec), nanos |-> n % NanosPerSec]

\* Duration + Duration: checked_add, panics on overflow.
StdAdd(a, b) ==
  LET ss    == U64Add(a.secs, b.secs)
      n     == a.nanos + b.nanos
      carry == U64Add(ss.val, Small(1))
  IN IF ss.ovf THEN [tag |-> "panic"]
     ELSE IF n < NanosPerSec
     THEN [tag |-> "ok", val |-> [secs |-> ss.val, nanos |-> n]]
     ELSE IF carry.ovf THEN [tag |-> "panic"]
     ELSE [tag |-> "ok", val |-> [secs |-> carry.val, nanos |-> n - NanosPerSec]]

\* Duration::ZERO
ZERO ==
  [seconds |-> Small(0), nanos |-> 0, special_fields |-> "default"]

\* A From that keeps milliseconds where nanoseconds belong.
DurationFromMillis(d) ==
  [seconds |-> d.secs, nanos |-> d.nanos \div 1000000,
   special_fields |-> "default"]

\* impl From<std::time::Duration> for Duration: as_secs() as i64 keeps the
\* bits, subsec_nanos() as i32 keeps the value (below 10^9).
DurationFrom(d) ==
  [seconds |-> d.secs, nanos |-> d.nanos, special_fields |-> "default"]

\* A try_into that takes negative nanos for zero.
TryIntoClamping(r) ==
  IF I64IsNeg(r.seconds) THEN [tag |-> "err"]
  ELSE StdAdd(StdFromSecs(r.seconds),
              StdFromNanos(IF r.nanos < 0 THEN 0 ELSE r.nanos))

\* impl TryInto<std::time::Duration> for Duration
TryInto(r) ==
  IF I64IsNeg(r.seconds) \/ r.nanos < 0 THEN [tag |-> "err"]
  ELSE StdAdd(StdFromSecs(r.seconds), StdFromNanos(r.nanos))

\* Whole seconds of the std durations converted, as u64 words.
U64Inputs ==
  {Small(0), Small(4), I64Max, I64Min, W64(32768, 0, 0, 1), AllOnes}
SubsecInputs == {0, 1, 123000000, 999999999}
StdInputs == [secs : U64Inputs, nanos : SubsecInputs]

\* Fields of the records converted: i64 words and i32 values.
I64Inputs ==
  {Small(0), Small(4), W64(32767, 65535, 65535, 65534), I64Max, I64Min,
   AllOnes}
I32Inputs ==
  {-2147483647 - 1, -1, 0, 123000000, 999999999, 1000000000, 2147483647}
RecInputs ==
  [seconds : I64Inputs, nanos : I32Inputs,
   special_fields : {"default", "unknown"}]

NoValue == [tag |-> "none"]

InitDur ==
  /\ dop = "idle" /\ dsrc = NoValue /\ drec = ZERO /\ dres = NoValue
  /\ CharsInit /\ UtfIdle /\ MapIdle /\ FmtIdle

\* Duration::from(d)
DurFrom(d) ==
  /\ dop' = "from"
  /\ dsrc' = [tag |-> "std", val |-> d]
  /\ drec' = DurationFrom(d)
  /\ dres' = NoValue
  /\ UNCHANGED <<utfVars, charsVars, mapVars, fmtVars>>

\* A record as a decoder or a caller builds it: any fields.
DurMake(r) ==
  /\ dop' = "make"
  /\ dsrc' = NoValue
  /\ drec' = r
  /\ dres' = NoValue
  /\ UNCHANGED <<utfVars, charsVars, mapVars, fmtVars>>

\* TryInto::<std::time::Duration>::try_into(record)
DurTryInto ==
  /\ dop \in {"from", "make", "idle"}
  /\ dop' = "try_into"
  /\ dres' = TryInto(drec)
  /\ UNCHANGED <<dsrc, drec, utfVars, charsVars, mapVars, fmtVars>>

NextDur ==
  \/ \E d \in StdInputs : DurFrom(d)
  \/ \E r \in RecInputs : DurMake(r)
  \/ DurTryInto

SpecDur == InitDur /\ [][NextDur]_vars

\* ================================================================ claims

\* C1: in every reachable state every live Chars holds valid UTF-8 (its
\* buffer is live and its bytes are the encoding of a text), so as_str
\* never takes invalid bytes for text.
C1_LiveCharsAreUtf8 ==
  \A h \in Slots :
    IsChars(h) =>
      /\ handles[h].buf # 0 => store[handles[h].buf].state = "live"
      /\ IsTextEncoding(as_str(store, handles[h]))

\* A non-empty Chars that from_bytes let through.
C1_Witness ==
  /\ last.op = "from_bytes" /\ last.ok
  /\ IsChars(last.h) /\ CharsLen(handles[last.h]) > 0

\* C2: from_bytes(b) is Ok exactly when b is valid UTF-8; on Ok the Chars
\* holds b itself (as_str is b, len is its byte length), on Err there is
\* no Chars.
C2_FromBytesExact ==
  uRes.tag # "none" =>
    /\ uRes.tag = "ok" <=> IsTextEncoding(uIn)
    /\ uRes.tag = "ok" =>
         /\ uRes.chars.st = "live" /\ uRes.chars.wrap = "chars"
         /\ uRes.text = uIn
         /\ uRes.len = Len(uIn)
    /\ uRes.tag = "err" => uRes.chars = NoHandle

\* A four-byte scalar accepted.
C2_Witness == uRes.tag = "ok" /\ Len(uIn) = 4 /\ uIn[1] >= 240

\* C8: after clear() on a Chars, however built or shared, is_empty() is
\* true, len() is 0 and it equals Chars::new().
C8_ClearEmpties ==
  (last.op = "clear" /\ IsChars(last.h)) =>
    /\ CharsIsEmpty(handles[last.h])
    /\ CharsLen(handles[last.h]) = 0
    /\ CharsEq(store, handles[last.h], CharsNewValue)

\* A cleared Chars whose memory (a literal or a shared buffer) held text.
C8_Witness ==
  /\ last.op = "clear" /\ IsChars(last.h)
  /\ BytesData(store, handles[last.h]) # <<>>

\* C9: under every interleaving of clone, clear, into_bytes and drop by
\* several threads, ref_cnt is the number of handles of the buffer, no
\* buffer is freed twice or decremented past zero, and a buffer that is
\* not live has no handle left.
C9_RefcountSafe ==
  /\ ~corrupt
  /\ \A b \in Bufs :
       LET users == {h \in Slots : Live(h) /\ handles[h].buf = b} IN
       /\ store[b].state = "live" => store[b].rc = Cardinality(users)
       /\ store[b].state # "live" => users = {}

\* A buffer that was shared by clones has been freed.
C9_Witness ==
  /\ last.op = "free"
  /\ store[last.h].state = "freed" /\ store[last.h].shared

\* C10: clear, into_bytes or drop of one handle leaves every other live
\* handle alive with the same text, length and hash, its buffer live.
C10_NoMutationThroughShared ==
  [][\A c \in Slots :
       (Clear(1, c, FALSE) \/ IntoBytes(1, c) \/ Drop(1, c, FALSE)) =>
         \A g \in Slots \ {c} :
           Live(g) =>
             /\ handles'[g].st = "live"
             /\ handles'[g].buf # 0 => store'[handles'[g].buf].state = "live"
             /\ as_str(store', handles'[g]) = as_str(store, handles[g])
             /\ CharsLen(handles'[g]) = CharsLen(handles[g])
             /\ CharsHashFeed(store', handles'[g]) =
                  CharsHashFeed(store, handles[g])]_vars

\* One of two Chars sharing a buffer was cleared, unwrapped or dropped and
\* the other still holds its text.
C10_Witness ==
  /\ last.op \in {"clear", "drop", "into_bytes"}
  /\ \E g \in Slots \ {last.h} :
       /\ IsChars(g) /\ handles[g].buf # 0 /\ CharsLen(handles[g]) > 0
       /\ store[handles[g].buf].shared

\* C3: a Chars feeds the hasher what its text feeds it as a str (the
\* bytes, then 0xff), so after any inserts a get with a &str equal to an
\* inserted key returns the value last inserted for it.
C3_HashAsStr ==
  /\ \A b \in Buckets : \A i \in 1..Len(table[b]) :
       LET k == table[b][i].key IN
       /\ CharsHashFeed(store, k) = as_str(store, k) \o <<255>>
       /\ Bucket(CharsHashFeed(store, k)) = b
  /\ \A q \in MapKeys : ghost[q] # 0 => MapGetStr(table, q) = ghost[q]
  /\ lastGet.had # 0 => lastGet.res = lastGet.had

\* get("foo") found 5 among several keys.
C3_Witness ==
  /\ lastGet = [q |-> <<102, 111, 111>>, res |-> 5, had |-> 5]
  /\ Cardinality({q \in MapKeys : ghost[q] # 0}) >= 3

\* C7: Display and Debug of a Chars built from s render what Display and
\* Debug of s as a string render.
C7_RenderAsStr ==
  fOut.op # "none" => fOut.chars = fOut.string

\* Debug of a Chars whose text has a char that is escaped and one that is
\* not ASCII.
C7_Witness ==
  /\ fOut.op = "debug"
  /\ \E i \in 1..Len(fText) : fText[i] = 34
  /\ \E i \in 1..Len(fText) : fText[i] = 195

\* C4: try_into fails exactly when seconds < 0 or nanos < 0, never
\* panics and never corrects; otherwise it is Ok with seconds whole
\* seconds plus nanos nanoseconds ({0,0} is zero, {4,123000000} is 4.123 s).
C4_TryIntoStrict ==
  dop = "try_into" =>
    /\ dres.tag \in {"ok", "err"}
    /\ dres.tag = "err" <=> (I64IsNeg(drec.seconds) \/ drec.nanos < 0)
    /\ dres.tag = "ok" =>
         /\ dres.val.nanos >= 0 /\ dres.val.nanos < NanosPerSec
         /\ \E k \in 0..2 :
              /\ dres.val.nanos + k * NanosPerSec = drec.nanos
              /\ U64Add(drec.seconds, Small(k)) =
                   [ovf |-> FALSE, val |-> dres.val.secs]
    /\ (drec.seconds = Small(0) /\ drec.nanos = 0) =>
         dres = [tag |-> "ok", val |-> [secs |-> Small(0), nanos |-> 0]]
    /\ (drec.seconds = Small(4) /\ drec.nanos = 123000000) =>
         dres = [tag |-> "ok", val |-> [secs |-> Small(4), nanos |-> 123000000]]

\* Positive seconds with negative nanos was rejected.
C4_Witness ==
  /\ dop = "try_into" /\ dres.tag = "err"
  /\ drec.seconds = Small(4) /\ drec.nanos = -1

\* C5: Duration::from(d) fails when d.as_secs() is above i64::MAX; it
\* yields no record, least of all one with wrapped (negative) seconds.
C5_FromRejectsOverflow ==
  (dop = "from" /\ U64AboveI64Max(dsrc.val.secs)) =>
    /\ dres.tag = "panic"
    /\ ~I64IsNeg(drec.seconds)

\* C6: for d with whole seconds within i64, from(d) is the record
\* {seconds: d's seconds, nanos: d's sub-second nanos in [0, 10^9),
\* default special fields}, and try_into of it is Ok(d).
C6_RoundTrip ==
  (dsrc.tag = "std" /\ ~U64AboveI64Max(dsrc.val.secs)) =>
    /\ dop \in {"from", "try_into"}
    /\ ~I64IsNeg(drec.seconds) /\ drec.seconds = dsrc.val.secs
    /\ drec.nanos = dsrc.val.nanos
    /\ drec.nanos >= 0 /\ drec.nanos < NanosPerSec
    /\ drec.special_fields = "default"
    /\ dop = "try_into" => dres = [tag |-> "ok", val |-> dsrc.val]

\* i64::MAX seconds and 999999999 nanos went there and back.
C6_Witness ==
  /\ dop = "try_into" /\ dsrc.tag = "std"
  /\ dsrc.val = [secs |-> I64Max, nanos |-> 999999999]
  /\ dres.tag = "ok"

====
